---- MODULE Spec2Model ----
(***************************************************************************)
(* Model of the two page scripts of js-date-format:                        *)
(*   - the date attribute annotator (src/preprocess-date.js), and          *)
(*   - the date text formatter (src/unnamed/part_000).                     *)
(*                                                                         *)
(* A JavaScript string is a sequence of one-character strings, a Date is   *)
(* its time value in minutes since 1970-01-01T00:00Z (or NaN), and the     *)
(* host timezone is its offset in minutes east of UTC.  null / undefined / *)
(* "attribute absent" are the empty set {} and a present value v is {v}.   *)
(***************************************************************************)
EXTENDS Integers, Sequences, FiniteSets, TLC

VARIABLES
  tz,              \* host timezone offset, minutes east of UTC
  dom,             \* the live document: per element its markup and attributes
  dateDataConfig,  \* window.dateDataConfig
  dateFormats,     \* window.dateFormats
  readyState,      \* document.readyState
  thrown,          \* an exception propagated out of the last handler
  call,            \* the handler invocation that ran last, with its argument
  runs             \* handler runs since the page was loaded

vars == <<tz, dom, dateDataConfig, dateFormats, readyState, thrown, call, runs>>

-----------------------------------------------------------------------------
(* Bounds of the model.                                                    *)

\* number of elements of the document (see parentElement, tagName)
NumElems == 6
\* handler runs explored after the page is loaded
MaxRuns == 2
\* entries of window.dateFormats
MaxConfigs == 2
\* pieces a format template is assembled from
MaxParts == 2

-----------------------------------------------------------------------------
(* JavaScript strings and numbers.                                         *)

null == {}
Some(v) == {v}
Val(o) == CHOOSE v \in o : TRUE

Digits == <<"0","1","2","3","4","5","6","7","8","9">>
IsDigit(c) == \E k \in 1..Len(Digits) : Digits[k] = c
DigitVal(c) == (CHOOSE k \in 1..Len(Digits) : Digits[k] = c) - 1

Letters ==
  {"a","b","c","d","e","f","g","h","i","j","k","l","m",
   "n","o","p","q","r","s","t","u","v","w","x","y","z",
   "A","B","C","D","E","F","G","H","I","J","K","L","M",
   "N","O","P","Q","R","S","T","U","V","W","X","Y","Z"}

\* the characters the regular expression class \w matches
IsWordChar(c) == c \in Letters \/ IsDigit(c) \/ c = "_"

IsSpace(c) == c = " "

\* a JavaScript number: an integer or NaN
Num(n) == [nan |-> FALSE, n |-> n]
NaN == [nan |-> TRUE, n |-> 0]
Plus(x, k) == IF x.nan THEN NaN ELSE Num(x.n + k)

\* String(n) for a non-negative integer
RECURSIVE NatToString(_)
NatToString(n) ==
  IF n < 10 THEN <<Digits[n + 1]>>
  ELSE NatToString(n \div 10) \o <<Digits[(n % 10) + 1]>>

\* String(x) of a JavaScript number
String(x) ==
  IF x.nan THEN <<"N","a","N">>
  ELSE IF x.n < 0 THEN <<"-">> \o NatToString(-x.n)
  ELSE NatToString(x.n)

\* s.padStart(n, '0')
RECURSIVE padStart(_, _)
padStart(s, n) == IF Len(s) >= n THEN s ELSE padStart(<<"0">> \o s, n)

\* s.slice(-k)
sliceLast(s, k) == IF Len(s) <= k THEN s ELSE SubSeq(s, Len(s) - k + 1, Len(s))

\* the number a run of decimal digits denotes
RECURSIVE DigitsValue(_)
DigitsValue(s) ==
  IF s = <<>> THEN 0
  ELSE 10 * DigitsValue(SubSeq(s, 1, Len(s) - 1)) + DigitVal(s[Len(s)])

AllDigits(s) == s # <<>> /\ \A k \in 1..Len(s) : IsDigit(s[k])

\* s.trim()
RECURSIVE trim(_)
trim(s) ==
  IF s = <<>> THEN s
  ELSE IF IsSpace(s[1]) THEN trim(Tail(s))
  ELSE IF IsSpace(s[Len(s)]) THEN trim(SubSeq(s, 1, Len(s) - 1))
  ELSE s

\* s.split(sep) for separator characters, empty pieces dropped
RECURSIVE Words(_, _, _)
Words(s, i, cur) ==
  IF i > Len(s) THEN (IF cur = <<>> THEN <<>> ELSE <<cur>>)
  ELSE IF IsSpace(s[i]) \/ s[i] = ","
       THEN (IF cur = <<>> THEN <<>> ELSE <<cur>>) \o Words(s, i + 1, <<>>)
       ELSE Words(s, i + 1, Append(cur, s[i]))

-----------------------------------------------------------------------------
(* The Date object: civil calendar arithmetic on the time value.           *)

MinutesPerDay == 24 * 60

\* day number (days since 1970-01-01) of a proleptic Gregorian date
DaysFromCivil(y, m, d) ==
  LET yy  == IF m <= 2 THEN y - 1 ELSE y
      era == yy \div 400
      yoe == yy - era * 400
      mp  == IF m > 2 THEN m - 3 ELSE m + 9
      doy == (153 * mp + 2) \div 5 + d - 1
      doe == yoe * 365 + yoe \div 4 - yoe \div 100 + doy
  IN  era * 146097 + doe - 719468

\* the Gregorian date of a day number
CivilFromDays(z0) ==
  LET z   == z0 + 719468
      era == z \div 146097
      doe == z - era * 146097
      yoe == (doe - doe \div 1460 + doe \div 36524 - doe \div 146096) \div 365
      doy == doe - (365 * yoe + yoe \div 4 - yoe \div 100)
      mp  == (5 * doy + 2) \div 153
      d   == doy - (153 * mp + 2) \div 5 + 1
      m   == IF mp < 10 THEN mp + 3 ELSE mp - 9
      y   == yoe + era * 400 + (IF m <= 2 THEN 1 ELSE 0)
  IN  [year |-> y, month |-> m, day |-> d]

IsLeap(y) == (y % 4 = 0 /\ y % 100 # 0) \/ y % 400 = 0
DaysInMonth(y, m) ==
  IF m = 2 THEN (IF IsLeap(y) THEN 29 ELSE 28)
  ELSE IF m \in {4, 6, 9, 11} THEN 30 ELSE 31

\* a Date: its time value, or NaN (Invalid Date)
DateOf(t) == [nan |-> FALSE, t |-> t]
InvalidDate == [nan |-> TRUE, t |-> 0]

\* isNaN(date.getTime())
isNaN(date) == date.nan

\* the calendar fields of a time value in UTC, and in the host's local time
UTCFields(date) == CivilFromDays(date.t \div MinutesPerDay)
LocalFields(date, zone) == CivilFromDays((date.t + zone) \div MinutesPerDay)

getFullYear(date, zone) == IF date.nan THEN NaN ELSE Num(LocalFields(date, zone).year)
\* getMonth() is zero-based
getMonth(date, zone) == IF date.nan THEN NaN ELSE Num(LocalFields(date, zone).month - 1)
getDate(date, zone) == IF date.nan THEN NaN ELSE Num(LocalFields(date, zone).day)
\* 0 = Sunday; 1970-01-01 was a Thursday
getDay(date, zone) == (((date.t + zone) \div MinutesPerDay) + 4) % 7

\* date.toISOString().split('T')[0]: the UTC date as YYYY-MM-DD
toISODate(date) ==
  LET f == UTCFields(date)
  IN  padStart(NatToString(f.year), 4) \o <<"-">> \o padStart(NatToString(f.month), 2)
        \o <<"-">> \o padStart(NatToString(f.day), 2)

MonthNames ==
  << <<"J","a","n","u","a","r","y">>, <<"F","e","b","r","u","a","r","y">>, <<"M","a","r","c","h">>, <<"A","p","r","i","l">>, <<"M","a","y">>, <<"J","u","n","e">>,
     <<"J","u","l","y">>, <<"A","u","g","u","s","t">>, <<"S","e","p","t","e","m","b","e","r">>, <<"O","c","t","o","b","e","r">>, <<"N","o","v","e","m","b","e","r">>, <<"D","e","c","e","m","b","e","r">> >>
WeekdayNames ==
  << <<"S","u","n","d","a","y">>, <<"M","o","n","d","a","y">>, <<"T","u","e","s","d","a","y">>, <<"W","e","d","n","e","s","d","a","y">>, <<"T","h","u","r","s","d","a","y">>,
     <<"F","r","i","d","a","y">>, <<"S","a","t","u","r","d","a","y">> >>
Short(name) == SubSeq(name, 1, 3)

\* date.toLocaleDateString('en-US', { month: 'long' | 'short' })
monthLong(date, zone) == MonthNames[LocalFields(date, zone).month]
monthShort(date, zone) == Short(monthLong(date, zone))
\* date.toLocaleDateString('en-US', { weekday: 'long' | 'short' })
weekdayLong(date, zone) == WeekdayNames[getDay(date, zone) + 1]
weekdayShort(date, zone) == Short(weekdayLong(date, zone))

\* new Date(text), the date-only ISO form YYYY-MM-DD: midnight UTC
IsISODate(s) ==
  /\ Len(s) = 10
  /\ s[5] = "-" /\ s[8] = "-"
  /\ AllDigits(SubSeq(s, 1, 4)) /\ AllDigits(SubSeq(s, 6, 7)) /\ AllDigits(SubSeq(s, 9, 10))

ParseISODate(s) ==
  LET y == DigitsValue(SubSeq(s, 1, 4))
      m == DigitsValue(SubSeq(s, 6, 7))
      d == DigitsValue(SubSeq(s, 9, 10))
  IN  IF m \in 1..12 /\ d >= 1 /\ d <= DaysInMonth(y, m)
      THEN DateOf(DaysFromCivil(y, m, d) * MinutesPerDay)
      ELSE InvalidDate

MonthIndex(w) ==
  {k \in 1..12 : w = MonthNames[k] \/ w = Short(MonthNames[k])}
IsWeekdayWord(w) ==
  \E k \in 1..7 : w = WeekdayNames[k] \/ w = Short(WeekdayNames[k])

\* new Date(text), any other form: "[weekday] month day, year" is midnight
\* in the host's local time
ParseLegacyDate(s, zone) ==
  LET ws0 == Words(s, 1, <<>>)
      ws  == IF ws0 # <<>> /\ IsWeekdayWord(ws0[1]) THEN Tail(ws0) ELSE ws0
  IN  IF /\ Len(ws) = 3
         /\ MonthIndex(ws[1]) # {}
         /\ AllDigits(ws[2]) /\ Len(ws[2]) <= 2
         /\ AllDigits(ws[3]) /\ Len(ws[3]) = 4
      THEN LET m == CHOOSE k \in MonthIndex(ws[1]) : TRUE
               d == DigitsValue(ws[2])
               y == DigitsValue(ws[3])
           IN  IF d >= 1 /\ d <= DaysInMonth(y, m)
               THEN DateOf(DaysFromCivil(y, m, d) * MinutesPerDay - zone)
               ELSE InvalidDate
      ELSE InvalidDate

\* new Date(text)
NewDate(s, zone) == IF IsISODate(s) THEN ParseISODate(s) ELSE ParseLegacyDate(s, zone)

-----------------------------------------------------------------------------
(* The document.                                                           *)
(*   1 <body>                                                              *)
(*   2   <div class="post-date">     holds the <time> elements 4, 6, ...   *)
(*   3   <span class="date">         a date-bearing element that is no     *)
(*                                   <time>                                *)
(*   5, 7, ...  <time>               children of <body>                    *)

Elems == 1..NumElems

tagName(e) ==
  IF e = 1 THEN "BODY" ELSE IF e = 2 THEN "DIV" ELSE IF e = 3 THEN "SPAN" ELSE "TIME"

className(e) == IF e = 2 THEN "post-date" ELSE IF e = 3 THEN "date" ELSE ""

\* el.parentElement, null for the root
parentElement(e) ==
  IF e = 1 THEN null
  ELSE IF e <= 3 THEN Some(1)
  ELSE IF e % 2 = 0 THEN Some(2) ELSE Some(1)

\* the elements in document (pre-)order, the order querySelectorAll returns
RECURSIVE Stride(_, _)
Stride(from, to) == IF from > to THEN <<>> ELSE <<from>> \o Stride(from + 2, to)
DocOrder == <<1, 2>> \o Stride(4, NumElems) \o <<3>> \o Stride(5, NumElems)

\* the elements whose content is text only
IsLeaf(e) == e >= 3

Element(html, datetime) ==
  [innerHTML |-> html, datetime |-> datetime,
   dataDate |-> null, dataYear |-> null, dataMonth |-> null, dataDay |-> null]

\* el.textContent of a leaf: its markup without the tags.  The characters of
\* s[lo..hi] outside tags, scanned from inside (inTag) or outside a tag; the
\* range is halved to keep the evaluation shallow
RECURSIVE StripTags(_, _, _, _)
StripTags(s, lo, hi, inTag) ==
  IF lo > hi THEN [text |-> <<>>, inTag |-> inTag]
  ELSE IF lo = hi
  THEN (IF s[lo] = "<" THEN [text |-> <<>>, inTag |-> TRUE]
        ELSE IF s[lo] = ">" THEN [text |-> <<>>, inTag |-> FALSE]
        ELSE IF inTag THEN [text |-> <<>>, inTag |-> TRUE]
        ELSE [text |-> <<s[lo]>>, inTag |-> FALSE])
  ELSE LET mid == (lo + hi) \div 2
           l == StripTags(s, lo, mid, inTag)
           r == StripTags(s, mid + 1, hi, l.inTag)
       IN  [text |-> l.text \o r.text, inTag |-> r.inTag]

textContent(d, e) == StripTags(d[e].innerHTML, 1, Len(d[e].innerHTML), FALSE).text

\* el.matches(selector) for the selectors the page uses; an unknown type
\* selector (such as the string "undefined") matches nothing
Matches(d, e, selector) ==
  CASE selector = "time" -> tagName(e) = "TIME"
    [] selector = ".post-date" -> className(e) = "post-date"
    [] selector = ".date" -> className(e) = "date"
    [] selector = "[data-date]" -> d[e].dataDate # null
    [] selector = ":not([data-date])" -> d[e].dataDate = null
    [] OTHER -> FALSE

\* document.querySelectorAll(selector)
querySelectorAll(d, selector) == SelectSeq(DocOrder, LAMBDA e : Matches(d, e, selector))

\* el.closest(selector): the element itself or its nearest matching ancestor
RECURSIVE closest(_, _, _)
closest(d, e, selector) ==
  IF Matches(d, e, selector) THEN Some(e)
  ELSE IF parentElement(e) = null THEN null
  ELSE closest(d, Val(parentElement(e)), selector)

-----------------------------------------------------------------------------
(* The annotator, src/preprocess-date.js.                                  *)

\* the date value of one <time> element, null when the element is skipped
dateValueOf(d, timeEl, zone) ==
  LET attr == d[timeEl].datetime
  IN  IF attr # null /\ Val(attr) # <<>> THEN attr
      ELSE LET dateText == trim(textContent(d, timeEl))
               date == NewDate(dateText, zone)
           IN  IF isNaN(date) THEN null ELSE Some(toISODate(date))

\* the element the attributes of timeEl are written to
parentElOf(d, timeEl, parentSelector) ==
  IF parentSelector # null THEN closest(d, timeEl, Val(parentSelector))
  ELSE parentElement(timeEl)

\* setDateAttributes with the new values appended to the ones already there
setDateAttributesAppending(d, parentEl, dateValue, zone) ==
  LET date == NewDate(dateValue, zone)
      old(attr) == IF attr = null THEN <<>> ELSE Val(attr)
  IN  [d EXCEPT ![parentEl].dataDate = Some(old(@) \o dateValue),
                ![parentEl].dataYear = Some(old(@) \o String(getFullYear(date, zone))),
                ![parentEl].dataMonth = Some(old(@) \o String(Plus(getMonth(date, zone), 1))),
                ![parentEl].dataDay = Some(old(@) \o String(getDate(date, zone)))]

\* the four setAttribute calls
setDateAttributes(d, parentEl, dateValue, zone) ==
  LET date == NewDate(dateValue, zone)
  IN  [d EXCEPT ![parentEl].dataDate = Some(dateValue),
                ![parentEl].dataYear = Some(String(getFullYear(date, zone))),
                ![parentEl].dataMonth = Some(String(Plus(getMonth(date, zone), 1))),
                ![parentEl].dataDay = Some(String(getDate(date, zone)))]

\* the body of the forEach callback for one <time> element
annotateOne(d, timeEl, parentSelector, zone) ==
  LET dateValue == dateValueOf(d, timeEl, zone)
      parentEl == parentElOf(d, timeEl, parentSelector)
  IN  IF dateValue = null THEN d
      ELSE IF parentEl = null THEN d
      ELSE setDateAttributes(d, Val(parentEl), Val(dateValue), zone)

RECURSIVE annotateAll(_, _, _, _)
annotateAll(d, timeElements, parentSelector, zone) ==
  IF timeElements = <<>> THEN d
  ELSE annotateAll(annotateOne(d, Head(timeElements), parentSelector, zone),
                   Tail(timeElements), parentSelector, zone)

addDateDataAttributes(d, parentSelector, zone) ==
  annotateAll(d, querySelectorAll(d, "time"), parentSelector, zone)

\* window.dateDataConfig: undefined, or an object with or without parentSelector
NoConfig == [defined |-> FALSE, parentSelector |-> null]
DataConfig(sel) == [defined |-> TRUE, parentSelector |-> sel]

applyDateDataAttributes(d, config, zone) ==
  IF config.defined /\ config.parentSelector # null
  THEN addDateDataAttributes(d, config.parentSelector, zone)
  ELSE addDateDataAttributes(d, null, zone)

-----------------------------------------------------------------------------
(* The formatter, src/unnamed/part_000.                                    *)

Token(key, value, class) == [key |-> key, value |-> value, class |-> class]

\* the token table, in the order its keys are written
tokens(date, zone) ==
  << Token(<<"Y","Y","Y","Y">>, String(getFullYear(date, zone)), <<"y","e","a","r","-","f","u","l","l">>),
     Token(<<"Y","Y">>, sliceLast(String(getFullYear(date, zone)), 2), <<"y","e","a","r","-","s","h","o","r","t">>),
     Token(<<"M","M","M","M">>, monthLong(date, zone), <<"m","o","n","t","h","-","l","o","n","g">>),
     Token(<<"M","M","M">>, monthShort(date, zone), <<"m","o","n","t","h","-","s","h","o","r","t">>),
     Token(<<"M","M">>, padStart(String(Plus(getMonth(date, zone), 1)), 2), <<"m","o","n","t","h","-","n","u","m","e","r","i","c">>),
     Token(<<"M">>, String(Plus(getMonth(date, zone), 1)), <<"m","o","n","t","h","-","n","u","m","e","r","i","c">>),
     Token(<<"d","d","d","d">>, weekdayLong(date, zone), <<"w","e","e","k","d","a","y","-","l","o","n","g">>),
     Token(<<"d","d","d">>, weekdayShort(date, zone), <<"w","e","e","k","d","a","y","-","s","h","o","r","t">>),
     Token(<<"D","D">>, padStart(String(getDate(date, zone)), 2), <<"d","a","y","-","n","u","m","e","r","i","c">>),
     Token(<<"D">>, String(getDate(date, zone)), <<"d","a","y","-","n","u","m","e","r","i","c">>) >>

\* Object.keys(tokens).sort((a, b) => b.length - a.length): a stable sort,
\* longest key first
RECURSIVE ByLengthFrom(_, _)
ByLengthFrom(ts, n) ==
  IF n = 0 THEN <<>>
  ELSE SelectSeq(ts, LAMBDA t : Len(t.key) = n) \o ByLengthFrom(ts, n - 1)

MaxKeyLen(ts) == CHOOSE n \in 0..Len(ts) + 4 :
  /\ \A k \in 1..Len(ts) : Len(ts[k].key) <= n
  /\ \E k \in 1..Len(ts) : Len(ts[k].key) = n

sortedTokens(ts) == ByLengthFrom(ts, MaxKeyLen(ts))

\* `<span class="${className}">${value}</span>`
span(class, content) ==
  <<"<","s","p","a","n"," ","c","l","a","s","s","=","\"">> \o class \o <<"\"",">">> \o content \o <<"<","/","s","p","a","n",">">>

\* the assertion \b at position p: exactly one of the characters before and
\* at p is a word character
WordBoundary(s, p) ==
  LET before == p - 1 >= 1 /\ p - 1 <= Len(s) /\ IsWordChar(s[p - 1])
      at == p >= 1 /\ p <= Len(s) /\ IsWordChar(s[p])
  IN  before # at

\* MatchesAt for a pattern without the two \b assertions
MatchesAtAnywhere(s, i, token) ==
  /\ i + Len(token) - 1 <= Len(s)
  /\ SubSeq(s, i, i + Len(token) - 1) = token

\* new RegExp(`\\b${token}\\b`) matches at position i
MatchesAt(s, i, token) ==
  /\ i + Len(token) - 1 <= Len(s)
  /\ s[i] = token[1]
  /\ SubSeq(s, i, i + Len(token) - 1) = token
  /\ WordBoundary(s, i)
  /\ WordBoundary(s, i + Len(token))

\* formatted.replace(new RegExp(`\\b${token}\\b`, 'g'), wrapped) from
\* position i on: the leftmost match is replaced and the search goes on
\* behind it
RECURSIVE replaceAll(_, _, _, _)
replaceAll(s, i, token, wrapped) ==
  LET found == {k \in i..(Len(s) - Len(token) + 1) : MatchesAt(s, k, token)}
  IN  IF found = {} THEN SubSeq(s, i, Len(s))
      ELSE LET k == CHOOSE m \in found : \A n \in found : m <= n
           IN  SubSeq(s, i, k - 1) \o wrapped
                 \o replaceAll(s, k + Len(token), token, wrapped)

\* sortedTokens.forEach(token => formatted = formatted.replace(...))
RECURSIVE substitute(_, _)
substitute(formatted, ts) ==
  IF ts = <<>> THEN formatted
  ELSE substitute(replaceAll(formatted, 1, Head(ts).key, span(Head(ts).class, Head(ts).value)),
                  Tail(ts))

\* an entry of window.dateFormats, or the argument of formatDate: an object
\* (any of its properties may be missing) or null
Config(selector, name, format) ==
  [kind |-> "object", selector |-> selector, name |-> name, format |-> format]
NullConfig == [kind |-> "null", selector |-> null, name |-> null, format |-> null]

\* a template literal prints undefined as "undefined"
Interpolate(v) == IF v = null THEN <<"u","n","d","e","f","i","n","e","d">> ELSE Val(v)
\* querySelectorAll(undefined) looks for <undefined> elements
SelectorString(v) == IF v = null THEN "undefined" ELSE Val(v)

\* the body of the forEach callback for one selected element; the result is
\* the document and whether a TypeError left the callback
formatOne(d, el, data, zone) ==
  LET dateText == trim(textContent(d, el))
      date == NewDate(dateText, zone)
      d1 == IF tagName(el) = "TIME"
            THEN [d EXCEPT ![el].datetime = Some(toISODate(date))]
            ELSE d
  IN  IF isNaN(date) THEN [dom |-> d, thrown |-> FALSE]
      ELSE IF data.format = null THEN [dom |-> d1, thrown |-> TRUE]
      ELSE LET formatted == substitute(Val(data.format), sortedTokens(tokens(date, zone)))
           IN  [dom |-> [d1 EXCEPT ![el].innerHTML = span(Interpolate(data.name), formatted)],
                thrown |-> FALSE]

\* formatEach leaving the loop at the first element that is no date
RECURSIVE formatEachUntilInvalid(_, _, _, _)
formatEachUntilInvalid(d, elements, data, zone) ==
  IF elements = <<>> THEN [dom |-> d, thrown |-> FALSE]
  ELSE IF isNaN(NewDate(trim(textContent(d, Head(elements))), zone))
  THEN [dom |-> d, thrown |-> FALSE]
  ELSE LET r == formatOne(d, Head(elements), data, zone)
       IN  IF r.thrown THEN r
           ELSE formatEachUntilInvalid(r.dom, Tail(elements), data, zone)

\* elements.forEach(el => ...): an exception ends the loop; r is the outcome
\* of the callback for the first element
RECURSIVE formatEach(_, _, _, _)
formatEach(d, elements, data, zone) ==
  IF elements = <<>> THEN [dom |-> d, thrown |-> FALSE]
  ELSE Val({IF r.thrown THEN r ELSE formatEach(r.dom, Tail(elements), data, zone) :
              r \in {formatOne(d, Head(elements), data, zone)}})

\* formatDate(data): destructuring null throws a TypeError
formatDate(d, data, zone) ==
  IF data.kind = "null" THEN [dom |-> d, thrown |-> TRUE]
  ELSE formatEach(d, querySelectorAll(d, SelectorString(data.selector)), data, zone)

\* r is the outcome of formatDate for the first configuration
RECURSIVE formatConfigs(_, _, _)
formatConfigs(d, configs, zone) ==
  IF configs = <<>> THEN [dom |-> d, thrown |-> FALSE]
  ELSE Val({IF r.thrown THEN r ELSE formatConfigs(r.dom, Tail(configs), zone) :
              r \in {formatDate(d, Head(configs), zone)}})

\* window.dateFormats: undefined, an array, or some other value
NoFormats == [kind |-> "undefined", items |-> <<>>]
NotAnArray == [kind |-> "object", items |-> <<>>]
FormatsArray(items) == [kind |-> "array", items |-> items]

applyAllDateFormats(d, formats, zone) ==
  IF formats.kind = "array" THEN formatConfigs(d, formats.items, zone)
  ELSE [dom |-> d, thrown |-> FALSE]

-----------------------------------------------------------------------------
(* Pages: the inputs the scripts run on.                                   *)

\* host timezones: UTC-5, UTC, UTC+1
Timezones == {-300, 0, 60}

\* what a <time> element of a page holds: its text and its datetime attribute
Markers ==
  { Element(<<" ","J","a","n","u","a","r","y"," ","1",","," ","2","0","2","5"," ">>, null),
    Element(<<"T","B","D">>, null),
    Element(<<"D","e","c"," ","9">>, Some(<<"2","0","2","5","-","1","2","-","0","9">>)),
    Element(<<"s","o","o","n">>, Some(<<"n","e","x","t","-","w","e","e","k">>)) }

\* the text of a date-bearing element the formatter is pointed at
DateTexts == { <<"D","e","c","e","m","b","e","r"," ","9",","," ","2","0","2","5">>, <<"T","B","D">> }

\* the page the formatter runs on: the first <time> is not a date yet, the
\* second is padded with white space
PageText(e) ==
  IF e = 4 THEN <<"T","B","D">>
  ELSE IF e = 5 THEN <<" ","J","a","n","u","a","r","y"," ","1",","," ","2","0","2","5"," ">>
  ELSE <<"D","e","c","e","m","b","e","r"," ","9",","," ","2","0","2","5">>

Container == Element(<<>>, null)

TimeElems == {e \in Elems : tagName(e) = "TIME"}
Leaves == {e \in Elems : IsLeaf(e)}

\* selectors a page may configure or pass for the annotation target
ParentSelectors == {".post-date", "time", "[data-date]", ":not([data-date])"}

\* the selectors that do not look at the attributes the annotator writes
AttributeFree == {".post-date", "time"}

\* the arguments of manual calls of window.addDateDataAttributes
ManualSelectors == {null, Some(".post-date"), Some(":not([data-date])")}

DataConfigs == {NoConfig, DataConfig(null)} \cup {DataConfig(Some(s)) : s \in ParentSelectors}

\* format configurations, well-formed and malformed
Pretty == Config(Some("time"), Some(<<"p","r","e","t","t","y","-","d","a","t","e">>), Some(<<"d","d","d","d",","," ","M","M","M","M"," ","D",","," ","Y","Y","Y","Y">>))
Iso == Config(Some("time"), Some(<<"i","s","o">>), Some(<<"Y","Y","Y","Y","-","M","M","-","D","D">>))
Brief == Config(Some(".date"), Some(<<"b","r","i","e","f">>), Some(<<"M","M","M"," ","D",","," ","Y","Y","Y","Y">>))
NoFormat == Config(Some("time"), Some(<<"b","r","o","k","e","n">>), null)
NoSelector == Config(null, Some(<<"l","o","s","t">>), Some(<<"D">>))

Configs == {Pretty, Iso, Brief, NoFormat, NoSelector, NullConfig}

WellFormed(data) ==
  data.kind = "object" /\ data.selector # null /\ data.name # null /\ data.format # null

RECURSIVE SeqsUpTo(_, _)
SeqsUpTo(S, n) ==
  IF n = 0 THEN {<<>>}
  ELSE LET shorter == SeqsUpTo(S, n - 1)
       IN  shorter \cup {Append(q, x) : q \in shorter, x \in S}

FormatsValues == {NoFormats, NotAnArray} \cup {FormatsArray(q) : q \in SeqsUpTo(Configs, MaxConfigs)}

\* the pieces format templates are assembled from: the tokens, and
\* characters that join, split or extend them
Pieces ==
  { <<"Y","Y","Y","Y">>, <<"Y","Y">>, <<"M","M","M","M">>, <<"M","M","M">>, <<"M","M">>, <<"M">>, <<"d","d","d","d">>, <<"d","d","d">>, <<"D","D">>, <<"D">>,
    <<"Y">>, <<"d">>, <<"-">>, <<","," ">>, <<"_">>, <<"e","c">> }

RECURSIVE Concat(_)
Concat(q) == IF q = <<>> THEN <<>> ELSE Head(q) \o Concat(Tail(q))

\* the templates of the documentation
Examples == { <<"Y","Y","Y","Y","-","M","M","-","D","D">>, <<"d","d","d","d",","," ","M","M","M","M"," ","D",","," ","Y","Y","Y","Y">>, <<"d","d","d"," ","M","M","M"," ","D",","," ","Y","Y","Y","Y">> }

Templates == {Concat(q) : q \in SeqsUpTo(Pieces, MaxParts)} \cup Examples

NoCall == [op |-> "none", parentSelector |-> null, data |-> NullConfig]
Call(op, sel, data) == [op |-> op, parentSelector |-> sel, data |-> data]

-----------------------------------------------------------------------------
(* The annotator's page.                                                   *)

AnnotInit ==
  /\ tz \in Timezones
  /\ \E m \in [TimeElems -> Markers] :
       dom = [e \in Elems |-> IF e \in TimeElems THEN m[e]
                              ELSE IF IsLeaf(e) THEN Element(<<"D","e","c","e","m","b","e","r"," ","9",","," ","2","0","2","5">>, null)
                              ELSE Container]
  /\ dateDataConfig \in DataConfigs
  /\ dateFormats = NoFormats
  /\ readyState \in {"loading", "complete"}
  /\ thrown = FALSE
  /\ call = NoCall
  /\ runs = 0

\* applyDateDataAttributes(); call records the selector it passes on
AnnotatorRun ==
  /\ dom' = applyDateDataAttributes(dom, dateDataConfig, tz)
  /\ call' = Call("applyDateDataAttributes",
                  IF dateDataConfig.defined THEN dateDataConfig.parentSelector ELSE null,
                  NullConfig)

\* the script runs after the document was parsed: applyDateDataAttributes()
AnnotScriptRun ==
  /\ readyState = "complete" /\ call = NoCall
  /\ AnnotatorRun
  /\ runs' = runs + 1
  /\ thrown' = FALSE
  /\ UNCHANGED <<tz, dateDataConfig, dateFormats, readyState>>

\* the DOMContentLoaded listener
AnnotDOMContentLoaded ==
  /\ readyState = "loading"
  /\ readyState' = "complete"
  /\ AnnotatorRun
  /\ runs' = runs + 1
  /\ thrown' = FALSE
  /\ UNCHANGED <<tz, dateDataConfig, dateFormats>>

\* the mercury:load listener
AnnotMercuryLoad ==
  /\ call # NoCall /\ runs < MaxRuns
  /\ AnnotatorRun
  /\ runs' = runs + 1
  /\ thrown' = FALSE
  /\ UNCHANGED <<tz, dateDataConfig, dateFormats, readyState>>

\* a manual call of window.addDateDataAttributes(parentSelector)
AnnotManualCall ==
  /\ call # NoCall /\ runs < MaxRuns
  /\ \E sel \in ManualSelectors :
       /\ dom' = addDateDataAttributes(dom, sel, tz)
       /\ call' = Call("addDateDataAttributes", sel, NullConfig)
  /\ runs' = runs + 1
  /\ thrown' = FALSE
  /\ UNCHANGED <<tz, dateDataConfig, dateFormats, readyState>>

AnnotNext ==
  \/ AnnotScriptRun
  \/ AnnotDOMContentLoaded
  \/ AnnotMercuryLoad
  \/ AnnotManualCall

SpecAnnot == AnnotInit /\ [][AnnotNext]_vars

-----------------------------------------------------------------------------
(* The formatter's page.                                                   *)

Init ==
  /\ tz \in Timezones
  /\ dom = [e \in Elems |-> IF IsLeaf(e) THEN Element(PageText(e), null) ELSE Container]
  /\ dateDataConfig = NoConfig
  /\ dateFormats \in FormatsValues
  /\ readyState \in {"loading", "complete"}
  /\ thrown = FALSE
  /\ call = NoCall
  /\ runs = 0

FormatterRun ==
  LET r == applyAllDateFormats(dom, dateFormats, tz)
  IN  /\ dom' = r.dom
      /\ thrown' = r.thrown
      /\ call' = Call("applyAllDateFormats", null, NullConfig)
      /\ runs' = runs + 1

\* the script runs after the document was parsed: applyAllDateFormats()
FormatScriptRun ==
  /\ readyState = "complete" /\ call = NoCall
  /\ FormatterRun
  /\ UNCHANGED <<tz, dateDataConfig, dateFormats, readyState>>

\* the DOMContentLoaded listener
FormatDOMContentLoaded ==
  /\ readyState = "loading"
  /\ readyState' = "complete"
  /\ FormatterRun
  /\ UNCHANGED <<tz, dateDataConfig, dateFormats>>

\* the mercury:load listener
FormatMercuryLoad ==
  /\ call # NoCall /\ runs < MaxRuns
  /\ FormatterRun
  /\ UNCHANGED <<tz, dateDataConfig, dateFormats, readyState>>

\* a manual call of window.formatDate(data) with one of the page's
\* configurations
FormatManualCall ==
  /\ call # NoCall /\ runs < MaxRuns
  /\ dateFormats.kind = "array"
  /\ \E k \in 1..Len(dateFormats.items) :
       LET data == dateFormats.items[k]
           r == formatDate(dom, data, tz)
       IN  /\ dom' = r.dom
           /\ thrown' = r.thrown
           /\ call' = Call("formatDate", null, data)
  /\ runs' = runs + 1
  /\ UNCHANGED <<tz, dateDataConfig, dateFormats, readyState>>

Next ==
  \/ FormatScriptRun
  \/ FormatDOMContentLoaded
  \/ FormatMercuryLoad
  \/ FormatManualCall

Spec == Init /\ [][Next]_vars

-----------------------------------------------------------------------------
(* Format templates: window.formatDate called with any template.           *)

TemplateInit ==
  /\ tz \in Timezones
  /\ \E t \in DateTexts :
       dom = [e \in Elems |-> IF ~IsLeaf(e) THEN Container
                              ELSE IF e = 4 THEN Element(t, null)
                              ELSE Element(<<"T","B","D">>, null)]
  /\ dateDataConfig = NoConfig
  /\ dateFormats = NoFormats
  /\ readyState = "complete"
  /\ thrown = FALSE
  /\ call = NoCall
  /\ runs = 0

\* window.formatDate({selector: 'time', name: 'when', format: template})
TemplateCall ==
  /\ runs < 1
  /\ \E template \in Templates :
       LET data == Config(Some("time"), Some(<<"w","h","e","n">>), Some(template))
           r == formatDate(dom, data, tz)
       IN  /\ dom' = r.dom
           /\ thrown' = r.thrown
           /\ call' = Call("formatDate", null, data)
  /\ runs' = runs + 1
  /\ UNCHANGED <<tz, dateDataConfig, dateFormats, readyState>>

TemplateNext == TemplateCall

SpecTemplate == TemplateInit /\ [][TemplateNext]_vars

-----------------------------------------------------------------------------
(* Properties of the annotator, checked under SpecAnnot.                   *)

\* the last handler was a run of the annotator
AnnotatorRan == call.op \in {"applyDateDataAttributes", "addDateDataAttributes"}

\* the selector of the last run matches by tag or class (or there is none), so
\* the ancestor it resolved for an element is the one resolved in this state
SelectorIsAttributeFree ==
  call.parentSelector = null \/ Val(call.parentSelector) \in AttributeFree

\* the element the last run resolved for timeEl
Target(timeEl) == parentElOf(dom, timeEl, call.parentSelector)

\* timeEl has a resolved ancestor that no other <time> element resolves to
SoleTarget(timeEl) ==
  /\ Target(timeEl) # null
  /\ \A other \in TimeElems \ {timeEl} : Target(other) # Target(timeEl)

\* YYYY-MM-DD of a calendar date
IsoForm(f) ==
  padStart(NatToString(f.year), 4) \o <<"-">> \o padStart(NatToString(f.month), 2)
    \o <<"-">> \o padStart(NatToString(f.day), 2)

\* the calendar date a valid YYYY-MM-DD value names
IsoFields(v) ==
  [year |-> DigitsValue(SubSeq(v, 1, 4)), month |-> DigitsValue(SubSeq(v, 6, 7)),
   day |-> DigitsValue(SubSeq(v, 9, 10))]

IsValidIsoDate(v) == IsISODate(v) /\ ~isNaN(ParseISODate(v))

\* element p carries exactly the attributes of the calendar date f
HasDateAttributes(p, f) ==
  /\ dom[p].dataDate = Some(IsoForm(f))
  /\ dom[p].dataYear = Some(NatToString(f.year))
  /\ dom[p].dataMonth = Some(NatToString(f.month))
  /\ dom[p].dataDay = Some(NatToString(f.day))

HasNoDateAttributes(p) ==
  /\ dom[p].dataDate = null /\ dom[p].dataYear = null
  /\ dom[p].dataMonth = null /\ dom[p].dataDay = null

\* C1: after a run of the annotator, the ancestor resolved for a <time>
\* element whose datetime attribute is a valid YYYY-MM-DD date (and that no
\* other <time> element resolves to) has data-date equal to that value and
\* data-year, data-month, data-day equal to that date's year, month and day,
\* in every host timezone.
C1_AttributesMatchDatetime ==
  (AnnotatorRan /\ SelectorIsAttributeFree) =>
    \A t \in TimeElems :
      (/\ dom[t].datetime # null
       /\ IsValidIsoDate(Val(dom[t].datetime))
       /\ SoleTarget(t))
      => /\ dom[Val(Target(t))].dataDate = dom[t].datetime
         /\ HasDateAttributes(Val(Target(t)), IsoFields(Val(dom[t].datetime)))

\* C2: after a run of the annotator, the ancestor resolved for a <time>
\* element without datetime attribute whose trimmed text parses to a valid
\* date carries the ISO form, year, month and day of the calendar date the
\* text denotes, in every host timezone.
C2_AttributesMatchParsedText ==
  (AnnotatorRan /\ SelectorIsAttributeFree) =>
    \A t \in TimeElems :
      LET date == NewDate(trim(textContent(dom, t)), tz)
      IN  (dom[t].datetime = null /\ ~isNaN(date) /\ SoleTarget(t))
          => HasDateAttributes(Val(Target(t)), LocalFields(date, tz))

\* no valid date is resolved for timeEl: its datetime attribute is no valid
\* date, or it has none and its text is no date
NoValidDate(timeEl) ==
  IF dom[timeEl].datetime # null /\ Val(dom[timeEl].datetime) # <<>>
  THEN isNaN(NewDate(Val(dom[timeEl].datetime), tz))
  ELSE isNaN(NewDate(trim(textContent(dom, timeEl)), tz))

\* C3: the first run of the annotator on a page writes none of data-date,
\* data-year, data-month, data-day on behalf of a <time> element for which no
\* valid date is resolved, and raises no exception.
C3_NothingWrittenFromInvalidDate ==
  (AnnotatorRan /\ SelectorIsAttributeFree /\ runs = 1) =>
    /\ ~thrown
    /\ \A t \in TimeElems :
         (NoValidDate(t) /\ SoleTarget(t)) => HasNoDateAttributes(Val(Target(t)))

\* C5 as stated: a run of the annotator with the selector of the run before
\* it, for any selector, leaves every attribute of every element as it was.
C5_Idempotent ==
  [][(/\ runs' = runs + 1
      /\ call.op # "none"
      /\ call'.parentSelector = call.parentSelector)
     => dom' = dom]_vars

\* C5 as amended: a run of the annotator with the selector of the run before
\* it leaves every attribute of every element as it was, provided the
\* selector does not look at the attributes the annotator writes.
C5_IdempotentForAttributeFreeSelectors ==
  [][(/\ runs' = runs + 1
      /\ call.op # "none"
      /\ call'.parentSelector = call.parentSelector
      /\ (call'.parentSelector = null \/ Val(call'.parentSelector) \in AttributeFree))
     => dom' = dom]_vars

\* C5 witness: the configured selector .post-date was applied twice, and the
\* two <time> elements of the .post-date element carry different dates
C5_SecondRunReached ==
  /\ runs = 2
  /\ call.op = "applyDateDataAttributes"
  /\ call.parentSelector = Some(".post-date")
  /\ dateValueOf(dom, 4, tz) # null
  /\ dateValueOf(dom, 6, tz) # null
  /\ dateValueOf(dom, 4, tz) # dateValueOf(dom, 6, tz)
  /\ dom[2].dataDate = dateValueOf(dom, 6, tz)

-----------------------------------------------------------------------------
(* Properties of the formatter, checked under Spec and SpecTemplate.       *)

\* the date the formatter parses from the text an element shows now
ShownDate(e) == NewDate(trim(textContent(dom, e)), tz)

\* the configurations the step applies, in order
StepConfigs ==
  IF call'.op = "formatDate" THEN <<call'.data>>
  ELSE IF dateFormats.kind = "array" THEN dateFormats.items
  ELSE <<>>

Selects(data, e) == Matches(dom, e, SelectorString(data.selector))

\* the markup formatDate writes for a date under a configuration
Rendering(data, date) ==
  span(Interpolate(data.name),
       substitute(Val(data.format), sortedTokens(tokens(date, tz))))

\* the end of the run of word characters, or of other characters, that
\* starts at position i
RunEnd(s, i) ==
  CHOOSE j \in i..Len(s) :
    /\ \A k \in i..j : IsWordChar(s[k]) = IsWordChar(s[i])
    /\ j = Len(s) \/ IsWordChar(s[j + 1]) # IsWordChar(s[i])

\* one left-to-right pass over the template: a whole word that is a token
\* becomes its span, everything else is kept
RECURSIVE Tokenize(_, _, _)
Tokenize(s, i, ts) ==
  IF i > Len(s) THEN <<>>
  ELSE LET j == RunEnd(s, i)
           word == SubSeq(s, i, j)
           hit == {k \in 1..Len(ts) : ts[k].key = word}
       IN  (IF hit = {} THEN word
            ELSE LET t == ts[CHOOSE k \in hit : TRUE] IN span(t.class, t.value))
             \o Tokenize(s, j + 1, ts)

\* C4: formatDate with any template writes what a single left-to-right
\* tokenization of the template gives: every whole-word token replaced once
\* by its span, no token replaced in part, nothing inserted matched again,
\* all other text kept; an element that is no date is left alone.
C4_SubstitutionIsOneTokenization ==
  [][runs' = runs + 1 =>
       \A e \in TimeElems :
         IF isNaN(ShownDate(e)) THEN dom'[e] = dom[e]
         ELSE dom'[e].innerHTML =
                span(Val(call'.data.name),
                     Tokenize(Val(call'.data.format), 1, tokens(ShownDate(e), tz)))]_vars

\* C4 witness: "YYYY-MM-DD" for December 9, 2025 gave spans of 2025, 12, 09
C4_IsoTemplateRendered ==
  /\ call.op = "formatDate"
  /\ call.data.format = Some(<<"Y","Y","Y","Y","-","M","M","-","D","D">>)
  /\ dom[4].innerHTML =
       <<"<","s","p","a","n"," ","c","l","a","s","s","=","\"","w","h","e","n","\"",">","<","s","p","a","n"," ","c","l","a","s","s","=","\"","y","e","a","r","-","f","u","l","l","\"",">","2","0","2","5","<","/","s","p","a","n",">","-">>
         \o <<"<","s","p","a","n"," ","c","l","a","s","s","=","\"","m","o","n","t","h","-","n","u","m","e","r","i","c","\"",">","1","2","<","/","s","p","a","n",">","-">>
         \o <<"<","s","p","a","n"," ","c","l","a","s","s","=","\"","d","a","y","-","n","u","m","e","r","i","c","\"",">","0","9","<","/","s","p","a","n",">","<","/","s","p","a","n",">">>

\* C6: a formatter step leaves every element whose trimmed text is no date
\* exactly as it was; a step that applies one well-formed configuration
\* raises no error and rewrites every selected element whose text is a date,
\* those behind an unparseable one included.
C6_UnparseableElementsAreSkipped ==
  [][runs' = runs + 1 =>
       /\ \A e \in Leaves : isNaN(ShownDate(e)) => dom'[e] = dom[e]
       /\ (Len(StepConfigs) = 1 /\ WellFormed(StepConfigs[1])) =>
            /\ thrown' = FALSE
            /\ \A e \in Leaves :
                 (Selects(StepConfigs[1], e) /\ ~isNaN(ShownDate(e)))
                 => dom'[e].innerHTML = Rendering(StepConfigs[1], ShownDate(e))]_vars

\* C6 witness: the configuration of the documentation was applied; the first
\* <time> (TBD) is untouched and the <time> behind it is rewritten
C6_SkippedAndRewritten ==
  /\ runs = 1
  /\ dateFormats = FormatsArray(<<Pretty>>)
  /\ ~thrown
  /\ dom[4] = Element(<<"T","B","D">>, null)
  /\ dom[6].innerHTML =
       <<"<","s","p","a","n"," ","c","l","a","s","s","=","\"","p","r","e","t","t","y","-","d","a","t","e","\"",">","<","s","p","a","n"," ","c","l","a","s","s","=","\"","w","e","e","k","d","a","y","-","l","o","n","g","\"",">","T","u","e","s","d","a","y","<","/","s","p","a","n",">",","," ">>
         \o <<"<","s","p","a","n"," ","c","l","a","s","s","=","\"","m","o","n","t","h","-","l","o","n","g","\"",">","D","e","c","e","m","b","e","r","<","/","s","p","a","n",">"," ">>
         \o <<"<","s","p","a","n"," ","c","l","a","s","s","=","\"","d","a","y","-","n","u","m","e","r","i","c","\"",">","9","<","/","s","p","a","n",">",","," ">>
         \o <<"<","s","p","a","n"," ","c","l","a","s","s","=","\"","y","e","a","r","-","f","u","l","l","\"",">","2","0","2","5","<","/","s","p","a","n",">","<","/","s","p","a","n",">">>

\* C7: a step that applies one well-formed configuration sets the datetime
\* attribute of every <time> element it rewrites to the YYYY-MM-DD form of
\* the year, month and day it substitutes for YYYY, MM and DD, in every host
\* timezone, and gives no other element a datetime attribute.
C7_DatetimeIsTheDisplayedDate ==
  [][(runs' = runs + 1 /\ Len(StepConfigs) = 1 /\ WellFormed(StepConfigs[1])) =>
       \A e \in Leaves :
         IF Selects(StepConfigs[1], e) /\ ~isNaN(ShownDate(e)) /\ tagName(e) = "TIME"
         THEN dom'[e].datetime = Some(IsoForm(LocalFields(ShownDate(e), tz)))
         ELSE dom'[e].datetime = dom[e].datetime]_vars

\* C8: when applyAllDateFormats applies two different well-formed
\* configurations that both select an element, the element ends up with the second
\* configuration's template applied to the date it showed before the run.
C8_ConfigurationsApplyIndependently ==
  [][(/\ runs' = runs + 1
      /\ call'.op = "applyAllDateFormats"
      /\ Len(StepConfigs) = 2
      /\ StepConfigs[1] # StepConfigs[2]
      /\ WellFormed(StepConfigs[1]) /\ WellFormed(StepConfigs[2]))
     => \A e \in Leaves :
          (/\ Selects(StepConfigs[1], e) /\ Selects(StepConfigs[2], e)
           /\ ~isNaN(ShownDate(e)))
          => dom'[e].innerHTML = Rendering(StepConfigs[2], ShownDate(e))]_vars

\* C9: a run of applyAllDateFormats changes nothing when window.dateFormats
\* is no array, lets no exception out whatever the array holds, and leaves
\* no element with its datetime attribute changed but its content not
\* rewritten.
C9_RunNeverFails ==
  [][(runs' = runs + 1 /\ call'.op = "applyAllDateFormats") =>
       /\ dateFormats.kind # "array" => dom' = dom
       /\ thrown' = FALSE
       /\ \A e \in Leaves :
            dom'[e].datetime # dom[e].datetime => dom'[e].innerHTML # dom[e].innerHTML]_vars

\* C10: a run of applyAllDateFormats that follows a run of applyAllDateFormats
\* (well-formed configurations, no change to the document in between) leaves
\* every element showing the same text and carrying the same datetime
\* attribute.
C10_RerunIsStable ==
  [][(/\ runs' = runs + 1
      /\ call.op = "applyAllDateFormats"
      /\ call'.op = "applyAllDateFormats"
      /\ \A k \in 1..Len(StepConfigs) : WellFormed(StepConfigs[k]))
     => \A e \in Leaves :
          /\ textContent(dom', e) = textContent(dom, e)
          /\ dom'[e].datetime = dom[e].datetime]_vars

====
